---- MODULE Spec2Model ----
(***************************************************************************)
(* Library-management REST backend (Django REST Framework).                *)
(*                                                                         *)
(* State: the Book and Member tables, the token table, the id sequences of *)
(* the two tables, the last response sent, and the request-handling        *)
(* threads with the locals of an in-flight borrow.                         *)
(*                                                                         *)
(*   Spec     : requests are handled one at a time (one action = one whole *)
(*              request, from the auth gate to the response).              *)
(*   ConcSpec : borrow runs as the four database steps of its code         *)
(*              (get_object, Member.objects.get, status check, save) on    *)
(*              several threads, interleaved with each other and with      *)
(*              member deletion.  views.py opens no transaction and takes  *)
(*              no row lock, so every query is its own transaction.        *)
(*                                                                         *)
(* A string of the error list is modelled as a pair <<field, message>>:    *)
(* <<"member_id", m>> is the string "member_id: m" and <<"", m>> is the    *)
(* bare message m.                                                         *)
(***************************************************************************)
EXTENDS Integers, Sequences, FiniteSets, TLC

\* ------------------------------------------------------------------ bounds

\* Book ids ever allocated by the Book table's id sequence.
MaxBooks == 2
\* Member ids ever allocated by the Member table's id sequence.
MaxMembers == 2
\* The most messages a list of errors holds.
MaxMsgs == 2
\* The most fields a mapping of errors holds.
MaxFields == 2

\* ----------------------------------------------------------------- domains

\* borrower = NULL (models.py: null=True); ids start at 1.
Null == 0

Absent == "<absent>"

Titles == {"t1", "t2"}
Authors == {"a1"}
Years == {2023}
STATUS_CHOICES == {"available", "borrowed"}
StatusInputs == STATUS_CHOICES \cup {"lost"}

Names == {"n1"}
Emails == {"e1@x.org", "e2@x.org"}
EmailInputs == Emails \cup {"not-an-email"}
Addresses == {"addr"}
Phones == {"555"}
Today == "d0"

BookIds == 1..MaxBooks
MemberIds == 1..MaxMembers

\* The principals of django.contrib.auth and their passwords.
Users == {"admin", "staff"}
PasswordOf(u) == "pw_" \o u
\* Token.generate_key is random: the same key for every principal.
SharedKey(u) == "key_admin"
\* Token.generate_key: a fresh key, here one per principal.
TokenKey(u) == "key_" \o u
NoToken == "<none>"
TokenInputs == {NoToken, "key_admin", "key_bogus"}
UsernameInputs == {Absent, "", "admin", "nobody"}
PasswordInputs == {Absent, "", "pw_admin", "wrong"}

\* ?status=<value> of the request's query string; NoFilter: not given.
NoFilter == "<nofilter>"
QueryParams == {NoFilter, "available", "borrowed"}

\* request.data.get('member_id'): absent, an integer, or a non-numeric string.
JAbsent == [kind |-> "absent", val |-> 0]
JInt(i) == [kind |-> "int", val |-> i]
JStr == [kind |-> "str", val |-> 0]
MemberIdInputs == {JAbsent, JStr} \cup {JInt(i) : i \in 0..MaxMembers}

\* Request bodies: `keys` are the keys present; a key that is absent carries
\* a fixed value that is never read.
BookContent == {"title", "author", "published_year"}
BookKeys == BookContent \cup {"status", "borrower"}

\* The bodies sent to POST, PUT and PATCH /books/: every choice of status and
\* borrower with all or none of the content fields, and the bodies with part
\* of the content fields with no status or the invalid one.
BookBodySet ==
    { d \in [keys : SUBSET BookKeys, title : Titles, author : Authors,
             published_year : Years, status : StatusInputs,
             borrower : 0..MaxMembers] :
        /\ "title" \notin d.keys => d.title = "t1"
        /\ "status" \notin d.keys => d.status = "available"
        /\ "borrower" \notin d.keys => d.borrower = Null
        /\ d.status = "lost" => "borrower" \notin d.keys
        /\ (d.keys \cap BookContent) \notin {BookContent, {}} =>
               /\ "borrower" \notin d.keys
               /\ "status" \in d.keys => d.status = "lost" }
BookBodies == { d : d \in BookBodySet }

MemberKeys == {"name", "email", "address", "phone"}

\* The bodies sent to POST, PUT and PATCH /members/: all keys, all but one,
\* one, or none.
MemberBodySet ==
    { d \in [keys : SUBSET MemberKeys, name : Names, email : EmailInputs,
             address : Addresses, phone : Phones] :
        /\ "email" \notin d.keys => d.email = "e1@x.org"
        /\ Cardinality(d.keys) # 2 }
MemberBodies == { d : d \in MemberBodySet }

\* The threads that handle requests in parallel.
Workers == {"w1", "w2"}

\* ------------------------------------------------------------------- state

VARIABLES
    books,          \* Book table: id -> row
    members,        \* Member table: id -> row
    tokens,         \* authtoken table: user -> key
    nextBookId,     \* id sequence of the Book table
    nextMemberId,   \* id sequence of the Member table
    resp,           \* the response being sent: [op, code, error]
    threads,        \* per thread: the locals of the borrow it is handling
    lent            \* history: books borrowed with no return since

vars == <<books, members, tokens, nextBookId, nextMemberId, resp, threads, lent>>
db == <<books, members, tokens, nextBookId, nextMemberId>>

\* An empty table.
NoRows == [i \in {} |-> 0]

\* No response is being sent: the server is ready for a request.
NoResp == [op |-> "none", code |-> 0, error |-> <<>>]

Idle == [pc |-> "idle", pk |-> 0, member_id |-> JAbsent, book |-> NoRows,
         member |-> 0, code |-> 0, error |-> <<>>, with |-> {}]

Init ==
    /\ books = NoRows
    /\ members = NoRows
    /\ tokens = NoRows
    /\ nextBookId = 1
    /\ nextMemberId = 1
    /\ resp = NoResp
    /\ threads = [w \in Workers |-> Idle]
    /\ lent = {}

\* ------------------------------------------------------ response helpers

\* Response(data, status=code): a successful response.
Ok(op, code) == [op |-> op, code |-> code, error |-> <<>>]

\* A handler that qualifies the messages of every field.
AlwaysQualify(field, msg) == <<field, msg>>

\* custom_exception_handler on {field: [messages]} or {field: message}: one
\* string per message, "<field>: <message>" unless the field is
\* non_field_errors or detail.
Qualify(field, msg) ==
    IF field = "non_field_errors" \/ field = "detail"
    THEN <<"", msg>> ELSE <<field, msg>>

\* ValidationError({field: [messages], ...}) -> 400 with the flattened list.
Invalid(op, errors) == [op |-> op, code |-> 400, error |-> errors]

\* ValidationError('message'): DRF holds the bare string as a one-element
\* list, which the handler's list branch copies.
InvalidStr(op, msg) == [op |-> op, code |-> 400, error |-> << <<"", msg>> >>]

\* Http404 of get_object -> NotFound -> {'detail': ...} -> 404.
NotFound(op) ==
    [op |-> op, code |-> 404, error |-> << Qualify("detail", "Not found.") >>]

\* An exception DRF's exception_handler does not know (ValueError,
\* IntegrityError): it returns None and the server answers 500.
ServerError(op) == [op |-> op, code |-> 500, error |-> <<>>]

If(c, s) == IF c THEN s ELSE <<>>

Range(s) == { s[i] : i \in DOMAIN s }

\* A delete that leaves the row in its table.
KeepRow(t, pk) == t

\* Table t without row pk.
Without(t, pk) == [i \in DOMAIN t \ {pk} |-> t[i]]

\* The request is handled by the one sequential server: no response is
\* pending, and no thread's locals are touched.
Ready == resp = NoResp

\* StandardizedResponseRenderer.render: the response is written out.
render ==
    /\ resp # NoResp
    /\ resp' = NoResp
    /\ UNCHANGED <<db, threads, lent>>

\* ---------------------------------------------------------------- auth gate

\* TokenAuthentication: the key of the Authorization header is looked up in
\* the token table.
TokenAuthentication(tok) == \E u \in DOMAIN tokens : tokens[u] = tok

\* permission_classes = [AllowAny]
AllowAny(tok) == TRUE

\* permission_classes = [IsAuthenticated] of BookViewSet and MemberViewSet.
IsAuthenticated(tok) == TokenAuthentication(tok)

ProtectedOps ==
    {"book_list", "book_retrieve", "book_create", "book_update",
     "book_partial_update", "book_destroy", "borrow", "return_book",
     "member_list", "member_retrieve", "member_create", "member_update",
     "member_partial_update", "member_destroy"}

\* A request the permission check rejects: NotAuthenticated (no header) or
\* AuthenticationFailed (unknown key), before any handler runs.
Unauthorized(tok) ==
    /\ Ready
    /\ ~IsAuthenticated(tok)
    /\ \E op \in ProtectedOps :
         resp' = [op |-> op, code |-> 401,
                  error |-> << Qualify("detail",
                      IF tok = NoToken
                      THEN "Authentication credentials were not provided."
                      ELSE "Invalid token.") >>]
    /\ UNCHANGED <<db, threads, lent>>

\* A backend that does not check the password.
AuthenticateByName(username, password) ==
    { u \in Users : u = username }

\* django.contrib.auth.authenticate(username, password)
authenticate(username, password) ==
    { u \in Users : u = username /\ PasswordOf(u) = password }

\* POST /auth/login/
login(username, password) ==
    /\ Ready
    /\ UNCHANGED <<books, members, nextBookId, nextMemberId, threads, lent>>
    /\ IF username \in {Absent, ""}
       THEN /\ resp' = Invalid("login",
                   << Qualify("username", "This field is required.") >>)
            /\ UNCHANGED tokens
       ELSE IF password \in {Absent, ""}
       THEN /\ resp' = Invalid("login",
                   << Qualify("password", "This field is required.") >>)
            /\ UNCHANGED tokens
       ELSE IF authenticate(username, password) = {}
       THEN /\ resp' = [op |-> "login", code |-> 401,
                        error |-> << Qualify("detail", "Invalid credentials.") >>]
            /\ UNCHANGED tokens
       ELSE LET user == CHOOSE u \in authenticate(username, password) : TRUE
            IN  \* Token.objects.get_or_create(user=user)
                /\ tokens' = IF user \in DOMAIN tokens THEN tokens
                             ELSE (user :> TokenKey(user)) @@ tokens
                /\ resp' = [op |-> "login", code |-> 200, error |-> <<>>,
                             token |-> tokens'[user]]

\* ------------------------------------------------------------------- books

\* BookViewSet.get_queryset: the ids the view's queryset holds.
get_queryset(bks, q) ==
    { pk \in DOMAIN bks : q = NoFilter \/ bks[pk].status = q }

\* GenericAPIView.get_object: the row of the view's queryset with id pk.
get_object(bks, pk, q) == pk \in get_queryset(bks, q)

\* BookSerializer.validate_status
validate_status(value) == value \in {"available", "borrowed"}

\* BookSerializer.is_valid: the errors of every field, in field order; a
\* required field may be left out only of a partial update.
BookErrors(d, partial, mems) ==
    If(~partial /\ "title" \notin d.keys,
       << Qualify("title", "This field is required.") >>)
    \o If(~partial /\ "author" \notin d.keys,
       << Qualify("author", "This field is required.") >>)
    \o If(~partial /\ "published_year" \notin d.keys,
       << Qualify("published_year", "This field is required.") >>)
    \o If("status" \in d.keys /\ ~validate_status(d.status),
       << Qualify("status", "Invalid status. Must be one of: available, borrowed") >>)
    \o If("borrower" \in d.keys /\ d.borrower # Null /\ d.borrower \notin DOMAIN mems,
       << Qualify("borrower", "Invalid pk - object does not exist.") >>)

\* An update that gives the fields left out their defaults.
BookApplyResets(row, d) ==
    [title |-> IF "title" \in d.keys THEN d.title ELSE row.title,
     author |-> IF "author" \in d.keys THEN d.author ELSE row.author,
     published_year |-> IF "published_year" \in d.keys
                        THEN d.published_year ELSE row.published_year,
     status |-> IF "status" \in d.keys THEN d.status ELSE "available",
     borrower |-> IF "borrower" \in d.keys THEN d.borrower ELSE Null]

\* ModelSerializer.update / create: the fields given overwrite the row's.
BookApply(row, d) ==
    [title |-> IF "title" \in d.keys THEN d.title ELSE row.title,
     author |-> IF "author" \in d.keys THEN d.author ELSE row.author,
     published_year |-> IF "published_year" \in d.keys
                        THEN d.published_year ELSE row.published_year,
     status |-> IF "status" \in d.keys THEN d.status ELSE row.status,
     borrower |-> IF "borrower" \in d.keys THEN d.borrower ELSE row.borrower]

\* The model's field defaults: status 'available', borrower NULL.
BookDefaults ==
    [title |-> "t1", author |-> "a1", published_year |-> 2023,
     status |-> "available", borrower |-> Null]

\* GET /books/
book_list(tok) ==
    /\ Ready
    /\ IsAuthenticated(tok)
    /\ resp' = Ok("book_list", 200)
    /\ UNCHANGED <<db, threads, lent>>

\* GET /books/{pk}/
book_retrieve(tok, pk, q) ==
    /\ Ready
    /\ IsAuthenticated(tok)
    /\ resp' = IF get_object(books, pk, q) THEN Ok("book_retrieve", 200)
               ELSE NotFound("book_retrieve")
    /\ UNCHANGED <<db, threads, lent>>

\* POST /books/ with body d
book_create(tok, d) ==
    /\ Ready
    /\ IsAuthenticated(tok)
    /\ LET errors == BookErrors(d, FALSE, members) IN
       IF errors # <<>>
       THEN /\ resp' = Invalid("book_create", errors)
            /\ UNCHANGED db
       ELSE /\ nextBookId <= MaxBooks
            /\ books' = (nextBookId :> BookApply(BookDefaults, d)) @@ books
            /\ nextBookId' = nextBookId + 1
            /\ resp' = Ok("book_create", 201)
            /\ UNCHANGED <<members, tokens, nextMemberId>>
    /\ UNCHANGED <<threads, lent>>

\* PUT /books/{pk}/ (partial = FALSE), PATCH /books/{pk}/ (partial = TRUE)
\* with body d
BookUpdate(op, partial, pk, q, d) ==
    /\ Ready
    /\ IF ~get_object(books, pk, q)
       THEN /\ resp' = NotFound(op)
            /\ UNCHANGED db
       ELSE LET errors == BookErrors(d, partial, members) IN
            IF errors # <<>>
            THEN /\ resp' = Invalid(op, errors)
                 /\ UNCHANGED db
            ELSE /\ books' = [books EXCEPT ![pk] = BookApply(@, d)]
                 /\ resp' = Ok(op, 200)
                 /\ UNCHANGED <<members, tokens, nextBookId, nextMemberId>>
    /\ UNCHANGED <<threads, lent>>

book_update(tok, pk, q, d) ==
    /\ IsAuthenticated(tok)
    /\ BookUpdate("book_update", FALSE, pk, q, d)

book_partial_update(tok, pk, q, d) ==
    /\ IsAuthenticated(tok)
    /\ BookUpdate("book_partial_update", TRUE, pk, q, d)

\* DELETE /books/{pk}/
book_destroy(tok, pk, q) ==
    /\ Ready
    /\ IsAuthenticated(tok)
    /\ IF ~get_object(books, pk, q)
       THEN /\ resp' = NotFound("book_destroy")
            /\ UNCHANGED <<db, lent>>
       ELSE /\ books' = Without(books, pk)
            /\ lent' = lent \ {pk}
            /\ resp' = Ok("book_destroy", 204)
            /\ UNCHANGED <<members, tokens, nextBookId, nextMemberId>>
    /\ UNCHANGED threads
\* ----------------------------------------------------------- borrow, return

\* Python truth of request.data.get('member_id'): None, 0 and "" are false.
Truthy(j) == j.kind = "str" \/ (j.kind = "int" /\ j.val # 0)

\* A handler's thread ends with this response.
Finish(l, r) == [l EXCEPT !.pc = "done", !.code = r.code, !.error = r.error]

\* book = self.get_object(); member_id = request.data.get('member_id')
BorrowGetObject(l, bks, pk, q, mid) ==
    LET l1 == [l EXCEPT !.pk = pk, !.member_id = mid] IN
    IF get_object(bks, pk, q)
    THEN [l1 EXCEPT !.pc = "member", !.book = bks[pk]]
    ELSE Finish(l1, NotFound("borrow"))

\* if not member_id: ...; member = Member.objects.get(id=member_id), which
\* raises Member.DoesNotExist (caught) or, for an id that is no number,
\* ValueError (not caught).
BorrowGetMember(l, mems) ==
    IF ~Truthy(l.member_id)
    THEN Finish(l, Invalid("borrow",
                   << Qualify("member_id", "This field is required.") >>))
    ELSE IF l.member_id.kind # "int"
    THEN Finish(l, ServerError("borrow"))
    ELSE IF l.member_id.val \notin DOMAIN mems
    THEN Finish(l, Invalid("borrow",
                   << Qualify("member_id", "Member does not exist.") >>))
    ELSE [l EXCEPT !.pc = "check", !.member = l.member_id.val]

\* if book.status != 'available': ...; book.status = 'borrowed';
\* book.borrower = member  (on the instance get_object returned)
BorrowCheck(l) ==
    IF l.book.status # "available"
    THEN Finish(l, InvalidStr("borrow", "This book is already borrowed."))
    ELSE [l EXCEPT !.pc = "save",
                   !.book = [@ EXCEPT !.status = "borrowed",
                                      !.borrower = l.member]]
\* A foreign key declared with db_constraint = False: nothing is checked.
NoForeignKeyConstraint(row, mems) == TRUE

\* db_constraint of Book.borrower: the row's borrower is NULL or a member.
ForeignKeyHolds(row, mems) ==
    row.borrower = Null \/ row.borrower \in DOMAIN mems

\* Model.save(): every field of the instance is written to the row with the
\* instance's id (UPDATE, or INSERT when no such row is left); the foreign
\* key is checked by the database.
BookSave(bks, mems, pk, row) ==
    IF ~ForeignKeyHolds(row, mems)
    THEN [ok |-> FALSE, books |-> bks]
    ELSE [ok |-> TRUE,
          books |-> IF pk \in DOMAIN bks THEN [bks EXCEPT ![pk] = row]
                    ELSE (pk :> row) @@ bks]

\* book.save(); return Response(serializer.data)
BorrowSave(l, bks, mems) ==
    LET saved == BookSave(bks, mems, l.pk, l.book) IN
    [books |-> saved.books,
     local |-> IF saved.ok THEN Finish(l, Ok("borrow", 200))
               ELSE Finish(l, ServerError("borrow"))]

\* BookViewSet.borrow, handled without interruption.
BorrowRun(bks, mems, pk, q, mid) ==
    LET l1 == BorrowGetObject(Idle, bks, pk, q, mid)
        l2 == IF l1.pc = "member" THEN BorrowGetMember(l1, mems) ELSE l1
        l3 == IF l2.pc = "check" THEN BorrowCheck(l2) ELSE l2
    IN  IF l3.pc = "save" THEN BorrowSave(l3, bks, mems)
        ELSE [books |-> bks, local |-> l3]

\* POST /books/{pk}/borrow/ with body {member_id: mid}
borrow(tok, pk, q, mid) ==
    /\ Ready
    /\ IsAuthenticated(tok)
    /\ LET out == BorrowRun(books, members, pk, q, mid) IN
       /\ books' = out.books
       /\ resp' = [op |-> "borrow", code |-> out.local.code,
                   error |-> out.local.error]
       /\ lent' = IF out.local.code = 200 THEN lent \cup {pk} ELSE lent
    /\ UNCHANGED <<members, tokens, nextBookId, nextMemberId, threads>>
\* A return that sets the status and leaves the borrower in place.
ReturnKeepsBorrower(bks, mems, pk, q) ==
    IF ~get_object(bks, pk, q)
    THEN [books |-> bks, resp |-> NotFound("return_book")]
    ELSE IF bks[pk].status # "borrowed"
    THEN [books |-> bks,
          resp |-> InvalidStr("return_book", "This book is not currently borrowed.")]
    ELSE LET saved == BookSave(bks, mems, pk,
                        [bks[pk] EXCEPT !.status = "available"])
         IN [books |-> saved.books, resp |-> Ok("return_book", 200)]

\* BookViewSet.return_book, handled without interruption.
ReturnRun(bks, mems, pk, q) ==
    IF ~get_object(bks, pk, q)
    THEN [books |-> bks, resp |-> NotFound("return_book")]
    ELSE IF bks[pk].status # "borrowed"
    THEN [books |-> bks,
          resp |-> InvalidStr("return_book", "This book is not currently borrowed.")]
    ELSE LET saved == BookSave(bks, mems, pk,
                        [bks[pk] EXCEPT !.status = "available", !.borrower = Null])
         IN [books |-> saved.books, resp |-> Ok("return_book", 200)]

\* POST /books/{pk}/return_book/
return_book(tok, pk, q) ==
    /\ Ready
    /\ IsAuthenticated(tok)
    /\ LET out == ReturnRun(books, members, pk, q) IN
       /\ books' = out.books
       /\ resp' = out.resp
       /\ lent' = IF out.resp.code = 200 THEN lent \ {pk} ELSE lent
    /\ UNCHANGED <<members, tokens, nextBookId, nextMemberId, threads>>

\* ----------------------------------------------------------------- members

\* EmailField: the value is an email address.
ValidEmailSyntax(value) == value \in Emails
\* An email check that looks for other members on update only.
ValidateEmailOnUpdateOnly(value, instance, mems) ==
    IF instance = Null
    THEN TRUE
    ELSE ~\E m \in DOMAIN mems \ {instance} : mems[m].email = value

\* An email check that counts the updated member itself.
ValidateEmailCountsSelf(value, instance, mems) ==
    ~\E m \in DOMAIN mems : mems[m].email = value

\* MemberSerializer.validate_email: instance = Null on create.
validate_email(value, instance, mems) ==
    IF instance = Null
    THEN ~\E m \in DOMAIN mems : mems[m].email = value
    ELSE ~\E m \in DOMAIN mems \ {instance} : mems[m].email = value

\* MemberSerializer.is_valid: the errors of every field, in field order.
MemberErrors(d, partial, instance, mems) ==
    If(~partial /\ "name" \notin d.keys,
       << Qualify("name", "This field is required.") >>)
    \o If(~partial /\ "email" \notin d.keys,
       << Qualify("email", "This field is required.") >>)
    \o If("email" \in d.keys /\ ~ValidEmailSyntax(d.email),
       << Qualify("email", "Enter a valid email address.") >>)
    \o If("email" \in d.keys /\ ValidEmailSyntax(d.email)
            /\ ~validate_email(d.email, instance, mems),
       << Qualify("email", "A member with this email already exists.") >>)
    \o If(~partial /\ "address" \notin d.keys,
       << Qualify("address", "This field is required.") >>)
    \o If(~partial /\ "phone" \notin d.keys,
       << Qualify("phone", "This field is required.") >>)

\* ModelSerializer.update / create; join_date is read-only.
MemberApply(row, d) ==
    [name |-> IF "name" \in d.keys THEN d.name ELSE row.name,
     email |-> IF "email" \in d.keys THEN d.email ELSE row.email,
     address |-> IF "address" \in d.keys THEN d.address ELSE row.address,
     phone |-> IF "phone" \in d.keys THEN d.phone ELSE row.phone,
     join_date |-> row.join_date]

\* join_date = DateField(auto_now_add=True)
MemberDefaults ==
    [name |-> "n1", email |-> "e1@x.org", address |-> "addr", phone |-> "555",
     join_date |-> Today]

\* email = EmailField(unique=True): the table's unique index.
UniqueHolds(mems, pk, row) ==
    ~\E m \in DOMAIN mems \ {pk} : mems[m].email = row.email

\* Model.save() of a member row.
MemberSave(mems, pk, row) ==
    IF ~UniqueHolds(mems, pk, row)
    THEN [ok |-> FALSE, members |-> mems]
    ELSE [ok |-> TRUE,
          members |-> IF pk \in DOMAIN mems THEN [mems EXCEPT ![pk] = row]
                      ELSE (pk :> row) @@ mems]

\* GET /members/
member_list(tok) ==
    /\ Ready
    /\ IsAuthenticated(tok)
    /\ resp' = Ok("member_list", 200)
    /\ UNCHANGED <<db, threads, lent>>

\* GET /members/{pk}/
member_retrieve(tok, pk) ==
    /\ Ready
    /\ IsAuthenticated(tok)
    /\ resp' = IF pk \in DOMAIN members THEN Ok("member_retrieve", 200)
               ELSE NotFound("member_retrieve")
    /\ UNCHANGED <<db, threads, lent>>

\* POST /members/ with body d
member_create(tok, d) ==
    /\ Ready
    /\ IsAuthenticated(tok)
    /\ LET errors == MemberErrors(d, FALSE, Null, members) IN
       IF errors # <<>>
       THEN /\ resp' = Invalid("member_create", errors)
            /\ UNCHANGED db
       ELSE /\ nextMemberId <= MaxMembers
            /\ LET saved == MemberSave(members, nextMemberId,
                                       MemberApply(MemberDefaults, d)) IN
               /\ members' = saved.members
               /\ nextMemberId' = IF saved.ok THEN nextMemberId + 1
                                  ELSE nextMemberId
               /\ resp' = IF saved.ok THEN Ok("member_create", 201)
                          ELSE ServerError("member_create")
            /\ UNCHANGED <<books, tokens, nextBookId>>
    /\ UNCHANGED <<threads, lent>>

\* PUT (partial = FALSE) or PATCH (partial = TRUE) /members/{pk}/ with body d
MemberUpdate(op, partial, pk, d) ==
    /\ Ready
    /\ IF pk \notin DOMAIN members
       THEN /\ resp' = NotFound(op)
            /\ UNCHANGED db
       ELSE LET errors == MemberErrors(d, partial, pk, members) IN
            IF errors # <<>>
            THEN /\ resp' = Invalid(op, errors)
                 /\ UNCHANGED db
            ELSE LET saved == MemberSave(members, pk,
                                         MemberApply(members[pk], d)) IN
                 /\ members' = saved.members
                 /\ resp' = IF saved.ok THEN Ok(op, 200) ELSE ServerError(op)
                 /\ UNCHANGED <<books, tokens, nextBookId, nextMemberId>>
    /\ UNCHANGED <<threads, lent>>

member_update(tok, pk, d) ==
    /\ IsAuthenticated(tok)
    /\ MemberUpdate("member_update", FALSE, pk, d)

member_partial_update(tok, pk, d) ==
    /\ IsAuthenticated(tok)
    /\ MemberUpdate("member_partial_update", TRUE, pk, d)
\* on_delete = DO_NOTHING without a database constraint: the books keep the
\* deleted member's id.
DO_NOTHING(bks, pk) == bks

\* on_delete=models.SET_NULL of Book.borrower
SET_NULL(bks, pk) ==
    [b \in DOMAIN bks |->
        IF bks[b].borrower = pk THEN [bks[b] EXCEPT !.borrower = Null]
        ELSE bks[b]]

\* DELETE /members/{pk}/
member_destroy(tok, pk) ==
    /\ Ready
    /\ IsAuthenticated(tok)
    /\ IF pk \notin DOMAIN members
       THEN /\ resp' = NotFound("member_destroy")
            /\ UNCHANGED db
       ELSE /\ books' = SET_NULL(books, pk)
            /\ members' = Without(members, pk)
            /\ resp' = Ok("member_destroy", 204)
            /\ UNCHANGED <<tokens, nextBookId, nextMemberId>>
    /\ UNCHANGED <<threads, lent>>

\* -------------------------------------------------- requests, one at a time

\* A body for a request that answers before reading its body.
AnyBookBody == CHOOSE d \in BookBodies : d.keys = {}

Login == Ready /\ \E u \in UsernameInputs, p \in PasswordInputs : login(u, p)

Rejected == Ready /\ \E tok \in TokenInputs : Unauthorized(tok)

BookList == Ready /\ \E tok \in TokenInputs : book_list(tok)

BookRetrieve ==
    Ready /\ \E tok \in TokenInputs, pk \in BookIds, q \in QueryParams :
                book_retrieve(tok, pk, q)

BookCreate ==
    Ready /\ \E tok \in TokenInputs, d \in BookBodies : book_create(tok, d)

\* A PUT or PATCH that finds no book does not read its body, and one that
\* finds it does not depend on the filter that let it through.
BookUpdateMissing ==
    Ready /\ \E tok \in TokenInputs, pk \in BookIds, q \in QueryParams :
                /\ ~get_object(books, pk, q)
                /\ \/ book_update(tok, pk, q, AnyBookBody)
                   \/ book_partial_update(tok, pk, q, AnyBookBody)

BookUpdatePut ==
    Ready /\ \E tok \in TokenInputs, pk \in BookIds, q \in QueryParams,
                d \in BookBodies :
                /\ get_object(books, pk, q)
                /\ q = NoFilter \/ d.keys = {}
                /\ book_update(tok, pk, q, d)

BookUpdatePatch ==
    Ready /\ \E tok \in TokenInputs, pk \in BookIds, q \in QueryParams,
                d \in BookBodies :
                /\ get_object(books, pk, q)
                /\ q = NoFilter \/ d.keys = {}
                /\ book_partial_update(tok, pk, q, d)

BookDestroy ==
    Ready /\ \E tok \in TokenInputs, pk \in BookIds, q \in QueryParams :
                book_destroy(tok, pk, q)

Borrow ==
    Ready /\ \E tok \in TokenInputs, pk \in BookIds, q \in QueryParams,
                mid \in MemberIdInputs : borrow(tok, pk, q, mid)

ReturnBook ==
    Ready /\ \E tok \in TokenInputs, pk \in BookIds, q \in QueryParams :
                return_book(tok, pk, q)

MemberList == Ready /\ \E tok \in TokenInputs : member_list(tok)

MemberRetrieve ==
    Ready /\ \E tok \in TokenInputs, pk \in MemberIds : member_retrieve(tok, pk)

MemberCreate ==
    Ready /\ \E tok \in TokenInputs, d \in MemberBodies : member_create(tok, d)

MemberUpdatePut ==
    Ready /\ \E tok \in TokenInputs, pk \in MemberIds, d \in MemberBodies :
                member_update(tok, pk, d)

MemberUpdatePatch ==
    Ready /\ \E tok \in TokenInputs, pk \in MemberIds, d \in MemberBodies :
                member_partial_update(tok, pk, d)

MemberDestroy ==
    Ready /\ \E tok \in TokenInputs, pk \in MemberIds : member_destroy(tok, pk)

Next ==
    \/ render
    \/ Login
    \/ Rejected
    \/ BookList
    \/ BookRetrieve
    \/ BookCreate
    \/ BookUpdateMissing
    \/ BookUpdatePut
    \/ BookUpdatePatch
    \/ BookDestroy
    \/ Borrow
    \/ ReturnBook
    \/ MemberList
    \/ MemberRetrieve
    \/ MemberCreate
    \/ MemberUpdatePut
    \/ MemberUpdatePatch
    \/ MemberDestroy

Spec == Init /\ [][Next]_vars

\* ------------------------------------------------- borrow on several threads

InFlight(l) == l.pc \notin {"idle", "done"}

\* A thread takes a borrow request (the permission check passed) and runs
\* get_object; `with` records the requests in flight at the same time.
borrow_get_object(w, tok, pk, q, mid) ==
    /\ threads[w].pc = "idle"
    /\ IsAuthenticated(tok)
    /\ threads' =
         [v \in Workers |->
            IF v = w
            THEN [BorrowGetObject(threads[w], books, pk, q, mid) EXCEPT
                     !.with = { u \in Workers \ {w} : InFlight(threads[u]) }]
            ELSE IF InFlight(threads[v])
            THEN [threads[v] EXCEPT !.with = @ \cup {w}]
            ELSE threads[v]]
    /\ UNCHANGED <<db, resp, lent>>

borrow_get_member(w) ==
    /\ threads[w].pc = "member"
    /\ threads' = [threads EXCEPT ![w] = BorrowGetMember(@, members)]
    /\ UNCHANGED <<db, resp, lent>>

borrow_check(w) ==
    /\ threads[w].pc = "check"
    /\ threads' = [threads EXCEPT ![w] = BorrowCheck(@)]
    /\ UNCHANGED <<db, resp, lent>>

borrow_save(w) ==
    /\ threads[w].pc = "save"
    /\ LET out == BorrowSave(threads[w], books, members) IN
       /\ books' = out.books
       /\ threads' = [threads EXCEPT ![w] = out.local]
       /\ lent' = IF out.local.code = 200 THEN lent \cup {threads[w].pk}
                  ELSE lent
    /\ UNCHANGED <<members, tokens, nextBookId, nextMemberId, resp>>

\* A database the sequential server can have produced: a token, every book
\* available, up to one member per email address.
ConcInit ==
    /\ tokens = [u \in Users |-> TokenKey(u)]
    /\ books = [b \in BookIds |-> BookDefaults]
    /\ \E present \in SUBSET MemberIds, e \in [MemberIds -> Emails] :
         /\ \A m, n \in present : e[m] = e[n] => m = n
         /\ members = [m \in present |-> [MemberDefaults EXCEPT !.email = e[m]]]
    /\ nextBookId = MaxBooks + 1
    /\ nextMemberId = MaxMembers + 1
    /\ resp = NoResp
    /\ threads = [w \in Workers |-> Idle]
    /\ lent = {}

BorrowGetObjectStep ==
    \E w \in Workers, tok \in TokenInputs, pk \in BookIds, q \in QueryParams,
       mid \in MemberIdInputs : borrow_get_object(w, tok, pk, q, mid)

BorrowGetMemberStep == \E w \in Workers : borrow_get_member(w)

BorrowCheckStep == \E w \in Workers : borrow_check(w)

BorrowSaveStep == \E w \in Workers : borrow_save(w)

ConcNext ==
    \/ BorrowGetObjectStep
    \/ BorrowGetMemberStep
    \/ BorrowCheckStep
    \/ BorrowSaveStep
    \/ MemberDestroy
    \/ render

ConcSpec == ConcInit /\ [][ConcNext]_vars

\* ------------------------------- borrow and return beside updates of a book

\* book = self.get_object()  (return_book)
ReturnGetObject(l, bks, pk, q) ==
    LET l1 == [l EXCEPT !.pk = pk] IN
    IF get_object(bks, pk, q)
    THEN [l1 EXCEPT !.pc = "rcheck", !.book = bks[pk]]
    ELSE Finish(l1, NotFound("return_book"))

\* if book.status != 'borrowed': ...; book.status = 'available';
\* book.borrower = None  (on the instance get_object returned)
ReturnCheck(l) ==
    IF l.book.status # "borrowed"
    THEN Finish(l, InvalidStr("return_book", "This book is not currently borrowed."))
    ELSE [l EXCEPT !.pc = "rsave",
                   !.book = [@ EXCEPT !.status = "available",
                                      !.borrower = Null]]

\* book.save(); return Response(serializer.data)  (return_book)
ReturnSave(l, bks, mems) ==
    LET saved == BookSave(bks, mems, l.pk, l.book) IN
    [books |-> saved.books,
     local |-> IF saved.ok THEN Finish(l, Ok("return_book", 200))
               ELSE Finish(l, ServerError("return_book"))]

return_get_object(w, tok, pk, q) ==
    /\ threads[w].pc = "idle"
    /\ IsAuthenticated(tok)
    /\ threads' =
         [v \in Workers |->
            IF v = w
            THEN [ReturnGetObject(threads[w], books, pk, q) EXCEPT
                     !.with = { u \in Workers \ {w} : InFlight(threads[u]) }]
            ELSE IF InFlight(threads[v])
            THEN [threads[v] EXCEPT !.with = @ \cup {w}]
            ELSE threads[v]]
    /\ UNCHANGED <<db, resp, lent>>

return_check(w) ==
    /\ threads[w].pc = "rcheck"
    /\ threads' = [threads EXCEPT ![w] = ReturnCheck(@)]
    /\ UNCHANGED <<db, resp, lent>>

return_save(w) ==
    /\ threads[w].pc = "rsave"
    /\ LET out == ReturnSave(threads[w], books, members) IN
       /\ books' = out.books
       /\ threads' = [threads EXCEPT ![w] = out.local]
       /\ lent' = IF out.local.code = 200 THEN lent \ {threads[w].pk}
                  ELSE lent
    /\ UNCHANGED <<members, tokens, nextBookId, nextMemberId, resp>>

\* The bodies that give content fields only: a new title alone (PATCH), or
\* title, author and published_year (PUT).
ContentBodies ==
    { d \in BookBodies : d.keys = {"title"} \/ d.keys = BookContent }

\* A database with a token, every book available and one member.
RaceInit ==
    /\ tokens = [u \in Users |-> TokenKey(u)]
    /\ books = [b \in BookIds |-> BookDefaults]
    /\ members = (1 :> MemberDefaults)
    /\ nextBookId = MaxBooks + 1
    /\ nextMemberId = MaxMembers + 1
    /\ resp = NoResp
    /\ threads = [w \in Workers |-> Idle]
    /\ lent = {}

ReturnGetObjectStep ==
    \E w \in Workers, tok \in TokenInputs, pk \in BookIds, q \in QueryParams :
        return_get_object(w, tok, pk, q)

ReturnCheckStep == \E w \in Workers : return_check(w)

ReturnSaveStep == \E w \in Workers : return_save(w)

BookUpdateContent ==
    Ready /\ \E tok \in TokenInputs, pk \in BookIds, d \in ContentBodies :
                \/ book_update(tok, pk, NoFilter, d)
                \/ book_partial_update(tok, pk, NoFilter, d)

RaceNext ==
    \/ BorrowGetObjectStep
    \/ BorrowGetMemberStep
    \/ BorrowCheckStep
    \/ BorrowSaveStep
    \/ ReturnGetObjectStep
    \/ ReturnCheckStep
    \/ ReturnSaveStep
    \/ BookUpdateContent
    \/ render

RaceSpec == RaceInit /\ [][RaceNext]_vars

\* --------------------------------------------------- partial updates alone

\* PATCH /books/{pk}/ and PATCH /members/{pk}/ on a database that holds
\* every book and any members.
PatchNext ==
    \/ BookUpdatePatch
    \/ MemberUpdatePatch
    \/ render

PatchSpec == ConcInit /\ [][PatchNext]_vars

\* ------------------------------------------------- login of every principal

AllUsernames == UsernameInputs \cup Users
AllPasswords == PasswordInputs \cup { PasswordOf(u) : u \in Users }
AllTokenInputs == TokenInputs \cup { TokenKey(u) : u \in Users }

LoginAny == Ready /\ \E u \in AllUsernames, p \in AllPasswords : login(u, p)

RejectedAny == Ready /\ \E tok \in AllTokenInputs : Unauthorized(tok)

ListAny ==
    Ready /\ \E tok \in AllTokenInputs : book_list(tok) \/ member_list(tok)

AuthNext ==
    \/ LoginAny
    \/ RejectedAny
    \/ ListAny
    \/ render

AuthSpec == Init /\ [][AuthNext]_vars

\* ------------------------------------------------------ the error flattener

\* response.data as DRF's exception_handler leaves it: a message (kind
\* "str"), a list of values or a mapping field -> value (kind "dict", its
\* items in iteration order). A list's items carry the field "".
Leaf(m) == [kind |-> "str", val |-> m, items |-> <<>>]
ListOf(items) == [kind |-> "list", val |-> "", items |-> items]
DictOf(items) == [kind |-> "dict", val |-> "", items |-> items]
Item(f, v) == [field |-> f, node |-> v]

ErrorMessages == {"m1", "m2"}
ErrorFields == {"email", "detail", "non_field_errors"}

\* The sequences of at most n elements of S.
SeqUpTo(S, n) == UNION { [1..k -> S] : k \in 0..n }

\* Lists of messages, and values nested one level deeper: a list in a list, a
\* mapping in a list, a mapping in a mapping.
MessageLists ==
    { ListOf(q) : q \in SeqUpTo({ Item("", Leaf(m)) : m \in ErrorMessages }, MaxMsgs) }
NestedValues ==
    { ListOf(<< Item("", ListOf(<< Item("", Leaf("m1")) >>)) >>),
      ListOf(<< Item("", DictOf(<< Item("email", Leaf("m1")) >>)) >>),
      DictOf(<< Item("email", ListOf(<< Item("", Leaf("m1")) >>)) >>) }
ErrorValues ==
    { Leaf(m) : m \in ErrorMessages } \cup MessageLists \cup NestedValues

\* The error structures handed to the handler.
ErrorData ==
    { Leaf(m) : m \in ErrorMessages }
    \cup { ListOf(q) : q \in SeqUpTo({ Item("", v) : v \in ErrorValues }, MaxMsgs) }
    \cup { DictOf(q) :
             q \in { r \in SeqUpTo({ Item(f, v) : f \in ErrorFields, v \in ErrorValues },
                                   MaxFields) :
                       \A i, j \in DOMAIN r : r[i].field = r[j].field => i = j } }

\* repr() and str() of a value: the text Python puts in an f-string.
RECURSIVE Repr(_)
RECURSIVE JoinRepr(_, _)
JoinRepr(items, isDict) ==
    IF items = <<>> THEN ""
    ELSE (IF isDict THEN "'" \o items[1].field \o "': " ELSE "")
         \o Repr(items[1].node)
         \o (IF Len(items) > 1 THEN ", " ELSE "")
         \o JoinRepr(Tail(items), isDict)
Repr(v) ==
    IF v.kind = "str" THEN "ErrorDetail(string='" \o v.val \o "', code='invalid')"
    ELSE IF v.kind = "list" THEN "[" \o JoinRepr(v.items, FALSE) \o "]"
    ELSE "{" \o JoinRepr(v.items, TRUE) \o "}"
Str(v) == IF v.kind = "str" THEN v.val ELSE Repr(v)

\* for field, messages in response.data.items(): one string per message of a
\* list, one string for any other value.
FieldMessages(field, messages) ==
    IF messages.kind = "list"
    THEN [i \in 1..Len(messages.items) |->
             Qualify(field, Str(messages.items[i].node))]
    ELSE << Qualify(field, Str(messages)) >>

RECURSIVE DictMessages(_)
DictMessages(items) ==
    IF items = <<>> THEN <<>>
    ELSE FieldMessages(items[1].field, items[1].node)
         \o DictMessages(Tail(items))

\* custom_exception_handler: error_messages for response.data.
error_messages(data) ==
    IF data.kind = "dict" THEN DictMessages(data.items)
    ELSE IF data.kind = "list"
    THEN [i \in 1..Len(data.items) |-> <<"", Str(data.items[i].node)>>]
    ELSE << <<"", Str(data)>> >>

\* custom_exception_handler(exc, context) on a response DRF's handler built:
\* response.data = {'error': error_messages}.
custom_exception_handler ==
    /\ resp.op = "exception"
    /\ resp' = [op |-> "error", code |-> resp.code,
                error |-> error_messages(resp.data)]
    /\ UNCHANGED <<db, threads, lent>>

\* An exception was raised and DRF's handler has built its response.
FlattenInit ==
    /\ books = NoRows
    /\ members = NoRows
    /\ tokens = NoRows
    /\ nextBookId = 1
    /\ nextMemberId = 1
    /\ \E d \in ErrorData :
         resp = [op |-> "exception", code |-> 400, error |-> <<>>, data |-> d]
    /\ threads = [w \in Workers |-> Idle]
    /\ lent = {}

FlattenNext == custom_exception_handler

FlattenSpec == FlattenInit /\ [][FlattenNext]_vars

\* ------------------------------------------------------------ the envelope

\* Response.status_text: the reason phrase of the status code, as its
\* characters.
status_text(code) ==
    IF code = 200 THEN <<"O", "K">>
    ELSE IF code = 201 THEN <<"C", "r", "e", "a", "t", "e", "d">>
    ELSE IF code = 204 THEN <<"N", "o", " ", "C", "o", "n", "t", "e", "n", "t">>
    ELSE IF code = 400 THEN <<"B", "a", "d", " ", "R", "e", "q", "u", "e", "s", "t">>
    ELSE IF code = 401
    THEN <<"U", "n", "a", "u", "t", "h", "o", "r", "i", "z", "e", "d">>
    ELSE IF code = 404 THEN <<"N", "o", "t", " ", "F", "o", "u", "n", "d">>
    ELSE <<>>

LowerCase ==
    <<"a", "b", "c", "d", "e", "f", "g", "h", "i", "j", "k", "l", "m",
      "n", "o", "p", "q", "r", "s", "t", "u", "v", "w", "x", "y", "z">>
UpperCase ==
    <<"A", "B", "C", "D", "E", "F", "G", "H", "I", "J", "K", "L", "M",
      "N", "O", "P", "Q", "R", "S", "T", "U", "V", "W", "X", "Y", "Z">>

\* str.replace(old, new) and str.upper(), character by character.
replace(chars, old, new) ==
    [i \in DOMAIN chars |-> IF chars[i] = old THEN new ELSE chars[i]]
upper(chars) ==
    [i \in DOMAIN chars |->
        IF \E k \in DOMAIN LowerCase : LowerCase[k] = chars[i]
        THEN UpperCase[CHOOSE k \in DOMAIN LowerCase : LowerCase[k] = chars[i]]
        ELSE chars[i]]

\* The string of a sequence of characters.
RECURSIVE Text(_)
Text(chars) == IF chars = <<>> THEN "" ELSE Head(chars) \o Text(Tail(chars))

\* The data of a response: {'error': [...]} from the exception handler, the
\* token of login, nothing for 204, else the serializer's data for the
\* operation.
ResponseData(r) ==
    IF r.code >= 400 THEN [error |-> r.error]
    ELSE IF r.op = "login" THEN [token |-> r.token]
    ELSE IF r.code = 204 THEN [none |-> TRUE]
    ELSE [serialized |-> r.op]

\* StandardizedResponseRenderer.render: response_payload.
response_payload(r) ==
    [code |-> r.code,
     status |-> Text(upper(replace(status_text(r.code), "_", " "))),
     data |-> ResponseData(r)]

\* What the client receives: the rendered payload of a DRF response, or, for
\* an exception the handler returned None for, Django's server error page,
\* which no renderer touches.
Emitted(r) ==
    IF r = ServerError(r.op)
    THEN [content_type |-> "text/html", body |-> "Server Error (500)"]
    ELSE response_payload(r)

\* ================================================================== claims

\* C1: in every reachable state every Book has status 'borrowed' if and only
\* if its borrower is not null.
C1_StatusIffBorrower ==
    \A b \in DOMAIN books :
        books[b].status = "borrowed" <=> books[b].borrower # Null

\* C2: two borrow requests that run at the same time on the same available
\* book, each naming an existing member, never both succeed: one ends with
\* 200 and the other with 400 'This book is already borrowed.'.
C2_ExactlyOneBorrowWins ==
    \A w1, w2 \in Workers :
        ( /\ w1 # w2
          /\ threads[w1].pc = "done" /\ threads[w2].pc = "done"
          /\ threads[w1].pk = threads[w2].pk
          /\ w1 \in threads[w2].with
          /\ threads[w1].member \in DOMAIN members
          /\ threads[w2].member \in DOMAIN members )
        => \E w \in {w1, w2}, v \in {w1, w2} :
             /\ w # v
             /\ threads[w].code = 200
             /\ threads[v].code = 400
             /\ threads[v].error = << <<"", "This book is already borrowed.">> >>

\* C3: a borrow of an existing available book by an existing member m answers
\* 200 and changes only that book's status (to 'borrowed') and borrower (to
\* m); a borrow by any member of a book that was borrowed, with no return
\* since, answers 400 and leaves the book unchanged.
C3_BorrowThenRefuse ==
    [][resp'.op = "borrow" =>
       \A tok \in TokenInputs, pk \in DOMAIN books, m \in DOMAIN members :
         borrow(tok, pk, NoFilter, JInt(m)) =>
            /\ books[pk].status = "available" =>
                 /\ resp' = [op |-> "borrow", code |-> 200, error |-> <<>>]
                 /\ books' = [books EXCEPT ![pk].status = "borrowed",
                                           ![pk].borrower = m]
                 /\ members' = members
            /\ pk \in lent =>
                 /\ resp'.code = 400
                 /\ books' = books
                 /\ members' = members]_vars

C5_Expected(pk, mid) ==
    IF pk \notin DOMAIN books
    THEN [code |-> 404, error |-> << <<"", "Not found.">> >>]
    ELSE IF mid.kind = "absent"
    THEN [code |-> 400, error |-> << <<"member_id", "This field is required.">> >>]
    ELSE IF ~(mid.kind = "int" /\ mid.val \in DOMAIN members)
    THEN [code |-> 400, error |-> << <<"member_id", "Member does not exist.">> >>]
    ELSE IF books[pk].status # "available"
    THEN [code |-> 400, error |-> << <<"", "This book is already borrowed.">> >>]
    ELSE [code |-> 200, error |-> <<>>]

\* C5: borrow checks, in this order, that the book exists (404), that
\* member_id is present (400 'member_id: This field is required.'), that the
\* member exists (400 'member_id: Member does not exist.') and that the book
\* is available (400 'This book is already borrowed.'); the first check that
\* fails decides the response, and a failing borrow changes no book and no
\* member.
C5_BorrowPreconditions ==
    [][resp'.op = "borrow" =>
       \A tok \in TokenInputs, pk \in BookIds, mid \in MemberIdInputs :
         borrow(tok, pk, NoFilter, mid) =>
            /\ resp'.code = C5_Expected(pk, mid).code
            /\ resp'.error = C5_Expected(pk, mid).error
            /\ resp'.code # 200 => (books' = books /\ members' = members)]_vars

\* A request to a protected operation with the token tok.
ProtectedRequest(tok) ==
    \/ Unauthorized(tok)
    \/ /\ IsAuthenticated(tok)
       /\ \/ book_list(tok)
          \/ \E pk \in BookIds, q \in QueryParams : book_retrieve(tok, pk, q)
          \/ \E d \in BookBodies : book_create(tok, d)
          \/ \E pk \in BookIds, q \in QueryParams, d \in BookBodies :
               book_update(tok, pk, q, d)
          \/ \E pk \in BookIds, q \in QueryParams, d \in BookBodies :
               book_partial_update(tok, pk, q, d)
          \/ \E pk \in BookIds, q \in QueryParams : book_destroy(tok, pk, q)
          \/ \E pk \in BookIds, q \in QueryParams, mid \in MemberIdInputs :
               borrow(tok, pk, q, mid)
          \/ \E pk \in BookIds, q \in QueryParams : return_book(tok, pk, q)
          \/ member_list(tok)
          \/ \E pk \in MemberIds : member_retrieve(tok, pk)
          \/ \E d \in MemberBodies : member_create(tok, d)
          \/ \E pk \in MemberIds, d \in MemberBodies : member_update(tok, pk, d)
          \/ \E pk \in MemberIds, d \in MemberBodies :
               member_partial_update(tok, pk, d)
          \/ \E pk \in MemberIds : member_destroy(tok, pk)

\* C6: a request to any operation other than login that carries no token or
\* a token that is not in the token table answers 401 with a non-empty error
\* list and changes no book, no member and no token.
C6_AuthGate ==
    [][\A tok \in TokenInputs :
         (~(\E u \in DOMAIN tokens : tokens[u] = tok) /\ ProtectedRequest(tok))
         => /\ resp'.code = 401
            /\ resp'.error # <<>>
            /\ books' = books /\ members' = members /\ tokens' = tokens]_vars

\* A request was refused while books, members and a token exist.
C6_Witness ==
    /\ resp.code = 401 /\ resp.op = "borrow"
    /\ books # NoRows /\ members # NoRows /\ tokens # NoRows

\* C7: no two members have the same email, and a create whose email is that
\* of an existing member answers 400 with the duplicate-email message on the
\* email field and creates no member.
C7_UniqueEmail ==
    /\ [](\A m, n \in DOMAIN members :
            members[m].email = members[n].email => m = n)
    /\ [][resp'.op = "member_create" =>
          \A tok \in TokenInputs, d \in MemberBodies :
            ( /\ "email" \in d.keys
              /\ \E m \in DOMAIN members : members[m].email = d.email
              /\ member_create(tok, d) )
            => /\ resp'.code = 400
               /\ <<"email", "A member with this email already exists.">>
                     \in Range(resp'.error)
               /\ members' = members
               /\ nextMemberId' = nextMemberId]_vars

\* A create was refused for its duplicate email while a member can still be
\* created.
C7_Witness ==
    /\ resp.op = "member_create" /\ resp.code = 400
    /\ <<"email", "A member with this email already exists.">> \in Range(resp.error)
    /\ nextMemberId <= MaxMembers

\* What C8 says of the step that answers an update of member pk with body d.
C8_Outcome(pk, d, partial) ==
    /\ (d.email = members[pk].email /\ (partial \/ d.keys = MemberKeys))
         => resp'.code = 200
    /\ (\E m \in DOMAIN members \ {pk} : members[m].email = d.email)
         => /\ resp'.code = 400
            /\ pk \in DOMAIN members'
            /\ members'[pk] = members[pk]

\* C8: a full or partial update of member pk that gives pk's own current
\* email (and, for a full update, every required field) answers 200; one
\* that gives the email of another member answers 400 and leaves pk
\* unchanged.
C8_UpdateExcludesSelf ==
    [][/\ resp'.op = "member_update" =>
            \A tok \in TokenInputs, pk \in DOMAIN members, d \in MemberBodies :
                ("email" \in d.keys /\ member_update(tok, pk, d))
                => C8_Outcome(pk, d, FALSE)
       /\ resp'.op = "member_partial_update" =>
            \A tok \in TokenInputs, pk \in DOMAIN members, d \in MemberBodies :
                ("email" \in d.keys /\ member_partial_update(tok, pk, d))
                => C8_Outcome(pk, d, TRUE)]_vars

\* A full update was accepted while another member exists.
C8_Witness ==
    /\ resp.op = "member_update" /\ resp.code = 200
    /\ Cardinality(DOMAIN members) = 2

\* C9: deleting an existing member answers 204, removes that member alone,
\* deletes no book, sets the borrower of the books it had borrowed to null
\* and changes no other field of any book; afterwards no borrower refers to
\* a member that does not exist.
C9_MemberDelete ==
    [][resp'.op = "member_destroy" =>
       \A tok \in TokenInputs, pk \in DOMAIN members :
         member_destroy(tok, pk) =>
            /\ resp' = [op |-> "member_destroy", code |-> 204, error |-> <<>>]
            /\ DOMAIN members' = DOMAIN members \ {pk}
            /\ \A m \in DOMAIN members' : members'[m] = members[m]
            /\ DOMAIN books' = DOMAIN books
            /\ \A b \in DOMAIN books :
                 /\ books'[b].title = books[b].title
                 /\ books'[b].author = books[b].author
                 /\ books'[b].published_year = books[b].published_year
                 /\ books'[b].status = books[b].status
                 /\ books'[b].borrower =
                      IF books[b].borrower = pk THEN Null ELSE books[b].borrower
                 /\ books'[b].borrower # Null =>
                      books'[b].borrower \in DOMAIN members']_vars

\* A member was deleted while it held a book it had borrowed and another
\* member held another book.
C9_Witness ==
    /\ resp.op = "member_destroy" /\ resp.code = 204
    /\ \E b \in lent : books[b].borrower = Null
    /\ \E b \in lent : books[b].borrower \in DOMAIN members

\* C10: when a member is deleted between a borrow's lookup of it and the
\* borrow's save, no state holds a book whose borrower is a member that does
\* not exist.
C10_NoDanglingBorrower ==
    \A b \in DOMAIN books :
        books[b].borrower # Null => books[b].borrower \in DOMAIN members

\* A borrow looked its member up, the member was deleted, and the save was
\* refused.
C10_Witness ==
    \E w \in Workers :
        /\ threads[w].pc = "done" /\ threads[w].code = 500
        /\ threads[w].member # 0
        /\ threads[w].member \notin DOMAIN members


\* C11: the save of a borrow or a return never changes the title, author or
\* published_year its book has at that moment: an update of these fields that
\* was written after the request read the book is not overwritten.
C11_NoLostUpdate ==
    [][\A w \in Workers :
         ( /\ threads[w].pc \in {"save", "rsave"}
           /\ threads[w].pk \in DOMAIN books
           /\ borrow_save(w) \/ return_save(w) )
         => LET pk == threads[w].pk IN
            /\ books'[pk].title = books[pk].title
            /\ books'[pk].author = books[pk].author
            /\ books'[pk].published_year = books[pk].published_year]_vars


\* C12: a partial update that answers 200 gives the fields of its body their
\* new values and leaves every other field of the row (a member's join_date
\* too), the row's id, every other row and every other table unchanged.
C12_PartialUpdateFrame ==
    [][/\ (resp'.op = "book_partial_update" /\ resp'.code = 200) =>
            \A tok \in TokenInputs, pk \in DOMAIN books, q \in QueryParams,
               d \in BookBodies :
                ( /\ TokenAuthentication(tok)
                  /\ q = NoFilter \/ d.keys = {}
                  /\ book_partial_update(tok, pk, q, d) ) =>
                    /\ DOMAIN books' = DOMAIN books
                    /\ \A b \in DOMAIN books \ {pk} : books'[b] = books[b]
                    /\ \A f \in BookKeys :
                         books'[pk][f] = IF f \in d.keys THEN d[f]
                                         ELSE books[pk][f]
                    /\ members' = members /\ tokens' = tokens
                    /\ nextBookId' = nextBookId /\ nextMemberId' = nextMemberId
       /\ (resp'.op = "member_partial_update" /\ resp'.code = 200) =>
            \A tok \in TokenInputs, pk \in DOMAIN members, d \in MemberBodies :
                ( /\ TokenAuthentication(tok)
                  /\ member_partial_update(tok, pk, d) ) =>
                    /\ DOMAIN members' = DOMAIN members
                    /\ \A m \in DOMAIN members \ {pk} : members'[m] = members[m]
                    /\ \A f \in MemberKeys :
                         members'[pk][f] = IF f \in d.keys THEN d[f]
                                           ELSE members[pk][f]
                    /\ members'[pk].join_date = members[pk].join_date
                    /\ books' = books /\ tokens' = tokens
                    /\ nextBookId' = nextBookId /\ nextMemberId' = nextMemberId]_vars

\* A partial update of a book was accepted while a book is borrowed by a
\* member and carries a title that is not the first one.
C12_Witness ==
    /\ resp.op = "book_partial_update" /\ resp.code = 200
    /\ \E b \in DOMAIN books :
         /\ books[b].title = "t2"
         /\ books[b].status = "borrowed"
         /\ books[b].borrower \in DOMAIN members


\* C13: ids are never given twice; a delete that answers 204 removes its row;
\* and every retrieve, update, partial update, delete (for a book, borrow and
\* return too) of an id whose row was deleted answers 404 and changes no
\* table.
C13_GoneIs404 ==
    /\ [](/\ \A pk \in DOMAIN books : pk < nextBookId
          /\ \A pk \in DOMAIN members : pk < nextMemberId)
    /\ [][/\ (resp'.op = "book_destroy" /\ resp'.code = 204) =>
               \A tok \in TokenInputs, pk \in DOMAIN books, q \in QueryParams :
                   book_destroy(tok, pk, q) =>
                       (pk \notin DOMAIN books' /\ nextBookId' = nextBookId)
          /\ (resp'.op = "member_destroy" /\ resp'.code = 204) =>
               \A tok \in TokenInputs, pk \in DOMAIN members :
                   member_destroy(tok, pk) =>
                       (pk \notin DOMAIN members' /\ nextMemberId' = nextMemberId)
          /\ resp'.op \in {"book_retrieve", "book_update", "book_partial_update",
                           "book_destroy", "borrow", "return_book"} =>
               \A pk \in BookIds :
                   (pk < nextBookId /\ pk \notin DOMAIN books) =>
                   \A tok \in TokenInputs, q \in QueryParams :
                       ( /\ TokenAuthentication(tok)
                         /\ \/ book_retrieve(tok, pk, q)
                            \/ book_update(tok, pk, q, AnyBookBody)
                            \/ book_partial_update(tok, pk, q, AnyBookBody)
                            \/ book_destroy(tok, pk, q)
                            \/ \E mid \in MemberIdInputs : borrow(tok, pk, q, mid)
                            \/ return_book(tok, pk, q) )
                       => /\ resp'.code = 404
                          /\ books' = books /\ members' = members
                          /\ tokens' = tokens
                          /\ nextBookId' = nextBookId
                          /\ nextMemberId' = nextMemberId
          /\ resp'.op \in {"member_retrieve", "member_update",
                           "member_partial_update", "member_destroy"} =>
               \A pk \in MemberIds :
                   (pk < nextMemberId /\ pk \notin DOMAIN members) =>
                   \A tok \in TokenInputs :
                       ( /\ TokenAuthentication(tok)
                         /\ \/ member_retrieve(tok, pk)
                            \/ \E d \in MemberBodies : member_update(tok, pk, d)
                            \/ \E d \in MemberBodies :
                                 member_partial_update(tok, pk, d)
                            \/ member_destroy(tok, pk) )
                       => /\ resp'.code = 404
                          /\ books' = books /\ members' = members
                          /\ tokens' = tokens
                          /\ nextBookId' = nextBookId
                          /\ nextMemberId' = nextMemberId]_vars

\* Every book id was given and deleted, and a further delete was answered
\* 404.
C13_Witness ==
    /\ resp.op = "book_destroy" /\ resp.code = 404
    /\ nextBookId = MaxBooks + 1
    /\ books = NoRows


\* The code and the error list C14 gives a login with username u and
\* password p.
C14_Expected(u, p) ==
    IF u \in {Absent, ""}
    THEN [code |-> 400, error |-> << <<"username", "This field is required.">> >>]
    ELSE IF p \in {Absent, ""}
    THEN [code |-> 400, error |-> << <<"password", "This field is required.">> >>]
    ELSE IF ~\E usr \in Users : usr = u /\ PasswordOf(usr) = p
    THEN [code |-> 401, error |-> << <<"", "Invalid credentials.">> >>]
    ELSE [code |-> 200, error |-> <<>>]

\* C14: login answers 400 'username: This field is required.' for a missing
\* or empty username, else 400 'password: This field is required.' for a
\* missing or empty password, else 401 'Invalid credentials.' for credentials
\* of no principal, else 200 with the principal's token; a login that fails
\* leaves the token table unchanged, and no login changes a book or a member.
C14_LoginPrecedence ==
    [][resp'.op = "login" =>
       \A u \in AllUsernames, p \in AllPasswords :
         login(u, p) =>
            /\ resp'.code = C14_Expected(u, p).code
            /\ resp'.error = C14_Expected(u, p).error
            /\ resp'.code # 200 => tokens' = tokens
            /\ resp'.code = 200 =>
                 (u \in DOMAIN tokens' /\ resp'.token = tokens'[u])
            /\ books' = books /\ members' = members]_vars

\* A login was refused for its credentials after a login that issued a
\* token.
C14_Witness ==
    /\ resp.op = "login" /\ resp.code = 401
    /\ tokens # NoRows

C16_Count(data) ==
    IF data.kind = "dict"
    THEN LET n(i) == IF data.items[i].node.kind = "list"
                     THEN Len(data.items[i].node.items) ELSE 1
             sum[k \in 0..Len(data.items)] ==
                 IF k = 0 THEN 0 ELSE sum[k - 1] + n(k)
         IN sum[Len(data.items)]
    ELSE IF data.kind = "list" THEN Len(data.items)
    ELSE 1

\* The messages of a mapping with their fields, in iteration order.
C16_Messages(data) ==
    LET msgs(i) == IF data.items[i].node.kind = "list"
                   THEN [j \in 1..Len(data.items[i].node.items) |->
                            <<data.items[i].field, data.items[i].node.items[j].node>>]
                   ELSE << <<data.items[i].field, data.items[i].node>> >>
        cat[k \in 0..Len(data.items)] ==
            IF k = 0 THEN <<>> ELSE cat[k - 1] \o msgs(k)
    IN cat[Len(data.items)]

\* C16: the handler turns an error structure into a list of strings: for a
\* mapping one string per message, in iteration order, the bare message for
\* the fields non_field_errors and detail and '<field>: <message>' for any
\* other field; for a list one string per element; for a scalar one string;
\* and every element of the output is a string, however nested the input.
C16_Flatten ==
    [][custom_exception_handler =>
         LET data == resp.data
             out == resp'.error
         IN /\ DOMAIN out = 1..C16_Count(data)
            /\ \A i \in DOMAIN out :
                 /\ DOMAIN out[i] = 1..2
                 /\ out[i][1] \in STRING /\ out[i][2] \in STRING
            /\ data.kind = "dict" =>
                 \A i \in DOMAIN out :
                    LET field == C16_Messages(data)[i][1]
                        msg == C16_Messages(data)[i][2]
                    IN /\ out[i][2] = Str(msg)
                       /\ out[i][1] = IF field \in {"non_field_errors", "detail"}
                                      THEN "" ELSE field
            /\ data.kind = "list" =>
                 \A i \in DOMAIN out :
                    out[i] = <<"", Str(data.items[i].node)>>
            /\ data.kind = "str" => out = << <<"", data.val>> >>]_vars

\* The handler has flattened a mapping with a qualified and a bare message
\* and a nested value.
C16_Witness ==
    /\ resp.op = "error"
    /\ Len(resp.error) = 3
    /\ resp.error[1] = <<"email", "m1">>
    /\ resp.error[2] = <<"email", "m2">>
    /\ resp.error[3] = <<"", "{'email': [ErrorDetail(string='m1', code='invalid')]}">>


\* The status C17 gives a response with this code.
C17_Status(code) ==
    IF code = 200 THEN "OK"
    ELSE IF code = 201 THEN "CREATED"
    ELSE IF code = 204 THEN "NO CONTENT"
    ELSE IF code = 400 THEN "BAD REQUEST"
    ELSE IF code = 401 THEN "UNAUTHORIZED"
    ELSE IF code = 404 THEN "NOT FOUND"
    ELSE "INTERNAL SERVER ERROR"

\* C17: every response is emitted as an object with exactly the keys code,
\* status and data: code is the response's status code, status its reason
\* phrase in upper case, data {error: [...]} for an error.
C17_Envelope ==
    resp # NoResp =>
        /\ DOMAIN Emitted(resp) = {"code", "status", "data"}
        /\ Emitted(resp).code = resp.code
        /\ Emitted(resp).status = C17_Status(resp.code)
        /\ resp.code >= 400 => Emitted(resp).data = [error |-> resp.error]


\* C18: a retrieve, update, partial update, delete, borrow or return of a
\* book that exists never answers 404, whatever the query string of the
\* request is.
C18_NotFoundOnlyIfAbsent ==
    [][resp'.op \in {"book_retrieve", "book_update", "book_partial_update",
                     "book_destroy", "borrow", "return_book"} =>
       \A tok \in TokenInputs, pk \in DOMAIN books, q \in QueryParams :
         ( /\ TokenAuthentication(tok)
           /\ \/ book_retrieve(tok, pk, q)
              \/ book_update(tok, pk, q, AnyBookBody)
              \/ book_partial_update(tok, pk, q, AnyBookBody)
              \/ book_destroy(tok, pk, q)
              \/ \E mid \in MemberIdInputs : borrow(tok, pk, q, mid)
              \/ return_book(tok, pk, q) )
         => resp'.code # 404]_vars

====
